---- MODULE Spec2Model ----
(***************************************************************************)
(* Model of the IN-SMART chatbot backend (src/app.py, src/api/chat.py).    *)
(*                                                                         *)
(* Texts are sequences of Unicode code points, so that json.loads,         *)
(* str.find / str.rfind, str.strip and the CJK regular expression are      *)
(* modelled character by character.                                        *)
(***************************************************************************)
EXTENDS Integers, Sequences, FiniteSets, TLC

(***************************************************************************)
(* Characters                                                              *)
(***************************************************************************)
LBRACE == 123
RBRACE == 125
QUOTE == 34
BACKSLASH == 92
CJK_LO == 19968
CJK_HI == 40959

\* "reply" and "followups", the two keys chat() reads from the parsed object
KeyReply == <<114, 101, 112, 108, 121>>
KeyFollowups == <<102, 111, 108, 108, 111, 119, 117, 112, 115>>

\* whitespace json.loads skips between tokens: space, \t, \n, \r
JsonWs == {32, 9, 10, 13}

\* whitespace str.strip() removes: the ASCII whitespace and separators, and
\* the Unicode spaces (NEL, NBSP, U+2000..U+200A, U+2028/9, U+202F, U+205F,
\* U+3000)
StripWs == {9, 10, 11, 12, 13, 28, 29, 30, 31, 32, 133, 160, 5760}
             \cup (8192..8202) \cup {8232, 8233, 8239, 8287, 12288}

(***************************************************************************)
(* JSON values, as json.loads builds them.  Every value has the same       *)
(* record shape: t is the type, s the text of a string (or the literal of  *)
(* a number), items the elements of an array or the members of an object.  *)
(***************************************************************************)
JNull == [t |-> "null", s |-> <<>>, items |-> <<>>]
JBool(b) == [t |-> IF b THEN "true" ELSE "false", s |-> <<>>, items |-> <<>>]
JNum(lit) == [t |-> "num", s |-> lit, items |-> <<>>]
JStr(str) == [t |-> "str", s |-> str, items |-> <<>>]
JArr(elems) == [t |-> "arr", s |-> <<>>, items |-> elems]
JMember(k, v) == [t |-> "member", s |-> k, items |-> <<v>>]
JObj(members) == [t |-> "obj", s |-> <<>>, items |-> members]

ParseFail == [ok |-> FALSE, val |-> JNull, pos |-> 0]
ParseOk(v, p) == [ok |-> TRUE, val |-> v, pos |-> p]

RECURSIVE SkipWs(_, _)
\* index of the first character at or after i that is not JSON whitespace
SkipWs(s, i) ==
    IF i <= Len(s) /\ s[i] \in JsonWs THEN SkipWs(s, i + 1) ELSE i

\* the character an escape sequence \e stands for; 0 when \e is no escape
\* (\uXXXX is not modelled: no input of the model holds it)
Unescape(e) ==
    CASE e = QUOTE -> QUOTE
      [] e = BACKSLASH -> BACKSLASH
      [] e = 47 -> 47
      [] e = 98 -> 8
      [] e = 102 -> 12
      [] e = 110 -> 10
      [] e = 114 -> 13
      [] e = 116 -> 9
      [] OTHER -> 0

RECURSIVE ScanString(_, _, _)
\* the body of a string literal from index i (after the opening quote)
ScanString(s, i, acc) ==
    IF i > Len(s) THEN ParseFail
    ELSE IF s[i] = QUOTE THEN ParseOk(JStr(acc), i + 1)
    ELSE IF s[i] = BACKSLASH THEN
        IF i + 1 > Len(s) \/ Unescape(s[i + 1]) = 0 THEN ParseFail
        ELSE ScanString(s, i + 2, Append(acc, Unescape(s[i + 1])))
    ELSE IF s[i] < 32 THEN ParseFail      \* strict: no raw control character
    ELSE ScanString(s, i + 1, Append(acc, s[i]))

Digits == 48..57

RECURSIVE ScanDigits(_, _)
ScanDigits(s, i) ==
    IF i <= Len(s) /\ s[i] \in Digits THEN ScanDigits(s, i + 1) ELSE i

\* an integer literal: -?(0|[1-9][0-9]*)   (fractions and exponents are not
\* modelled: no input of the model holds them)
ScanNumber(s, i) ==
    LET j == IF s[i] = 45 THEN i + 1 ELSE i
        k == IF j <= Len(s) /\ s[j] = 48 THEN j + 1 ELSE ScanDigits(s, j)
    IN  IF k = j THEN ParseFail ELSE ParseOk(JNum(SubSeq(s, i, k - 1)), k)

HasPrefixAt(s, i, w) ==
    /\ i + Len(w) - 1 <= Len(s)
    /\ SubSeq(s, i, i + Len(w) - 1) = w

RECURSIVE ScanValue(_, _)
RECURSIVE ScanMembers(_, _, _)
RECURSIVE ScanElements(_, _, _)

\* the value that starts exactly at index i (scanner.scan_once)
ScanValue(s, i) ==
    IF i > Len(s) THEN ParseFail
    ELSE IF s[i] = QUOTE THEN ScanString(s, i + 1, <<>>)
    ELSE IF s[i] = LBRACE THEN
        LET j == SkipWs(s, i + 1)
        IN  IF j <= Len(s) /\ s[j] = RBRACE THEN ParseOk(JObj(<<>>), j + 1)
            ELSE ScanMembers(s, j, <<>>)
    ELSE IF s[i] = 91 THEN
        LET j == SkipWs(s, i + 1)
        IN  IF j <= Len(s) /\ s[j] = 93 THEN ParseOk(JArr(<<>>), j + 1)
            ELSE ScanElements(s, j, <<>>)
    ELSE IF HasPrefixAt(s, i, <<110, 117, 108, 108>>) THEN ParseOk(JNull, i + 4)
    ELSE IF HasPrefixAt(s, i, <<116, 114, 117, 101>>) THEN ParseOk(JBool(TRUE), i + 4)
    ELSE IF HasPrefixAt(s, i, <<102, 97, 108, 115, 101>>)
        THEN ParseOk(JBool(FALSE), i + 5)
    ELSE IF s[i] = 45 \/ s[i] \in Digits THEN ScanNumber(s, i)
    ELSE ParseFail

\* the members of an object from index i (at a key), acc the members so far
ScanMembers(s, i, acc) ==
    IF i > Len(s) \/ s[i] # QUOTE THEN ParseFail
    ELSE
      LET key == ScanString(s, i + 1, <<>>)
      IN  IF ~key.ok THEN ParseFail
          ELSE
            LET c == SkipWs(s, key.pos)
            IN  IF c > Len(s) \/ s[c] # 58 THEN ParseFail
                ELSE
                  LET v == ScanValue(s, SkipWs(s, c + 1))
                  IN  IF ~v.ok THEN ParseFail
                      ELSE
                        LET n == SkipWs(s, v.pos)
                            acc2 == Append(acc, JMember(key.val.s, v.val))
                        IN  IF n > Len(s) THEN ParseFail
                            ELSE IF s[n] = RBRACE THEN ParseOk(JObj(acc2), n + 1)
                            ELSE IF s[n] = 44
                                THEN ScanMembers(s, SkipWs(s, n + 1), acc2)
                            ELSE ParseFail

\* the elements of an array from index i (at a value), acc the elements so far
ScanElements(s, i, acc) ==
    LET v == ScanValue(s, i)
    IN  IF ~v.ok THEN ParseFail
        ELSE
          LET n == SkipWs(s, v.pos)
              acc2 == Append(acc, v.val)
          IN  IF n > Len(s) THEN ParseFail
              ELSE IF s[n] = 93 THEN ParseOk(JArr(acc2), n + 1)
              ELSE IF s[n] = 44 THEN ScanElements(s, SkipWs(s, n + 1), acc2)
              ELSE ParseFail

\* json.loads(s): one value, whitespace around it allowed, nothing after it
\* ("Extra data" otherwise); ok = FALSE stands for the raised exception
JsonLoads(s) ==
    LET v == ScanValue(s, SkipWs(s, 1))
    IN  IF v.ok /\ SkipWs(s, v.pos) = Len(s) + 1 THEN v ELSE ParseFail

RECURSIVE DictGetFrom(_, _, _)
DictGetFrom(members, key, i) ==
    IF i = 0 THEN JNull
    ELSE IF members[i].s = key THEN members[i].items[1]
    ELSE DictGetFrom(members, key, i - 1)

\* parsed.get(key): the value of the last member named key (json.loads keeps
\* the last of duplicate keys), None when there is none
DictGet(obj, key) == DictGetFrom(obj.items, key, Len(obj.items))

RECURSIVE StrFindFrom(_, _, _)
StrFindFrom(s, c, i) ==
    IF i > Len(s) THEN -1
    ELSE IF s[i] = c THEN i - 1
    ELSE StrFindFrom(s, c, i + 1)

\* s.find(c): 0-based index of the first c, -1 when there is none
StrFind(s, c) == StrFindFrom(s, c, 1)

\* variant: the first "}" is taken where the last is meant
StrRFindFirst(s, c) == StrFind(s, c)

RECURSIVE StrRFindFrom(_, _, _)
StrRFindFrom(s, c, i) ==
    IF i = 0 THEN -1
    ELSE IF s[i] = c THEN i - 1
    ELSE StrRFindFrom(s, c, i - 1)

\* s.rfind(c): 0-based index of the last c, -1 when there is none
StrRFind(s, c) == StrRFindFrom(s, c, Len(s))

\* s[a:b] for 0 <= a <= b <= len(s)
Slice(s, a, b) == SubSeq(s, a + 1, b)

\* variant: the message is not trimmed
StripNothing(s) == s

RECURSIVE LStrip(_)
LStrip(s) == IF s # <<>> /\ Head(s) \in StripWs THEN LStrip(Tail(s)) ELSE s

RECURSIVE RStrip(_)
RStrip(s) ==
    IF s # <<>> /\ s[Len(s)] \in StripWs
    THEN RStrip(SubSeq(s, 1, Len(s) - 1)) ELSE s

\* s.strip()
Strip(s) == RStrip(LStrip(s))

\* variant: the two ends of the range are left out
HasCjkExclusive(s) == \E i \in 1..Len(s) : s[i] > CJK_LO /\ s[i] < CJK_HI

\* re.search(r"[\u4e00-\u9fff]", s) is not None
HasCjk(s) == \E i \in 1..Len(s) : s[i] >= CJK_LO /\ s[i] <= CJK_HI

RECURSIVE KeepNonEmptyStrings(_)
\* variant: "if f" where isinstance(f, str) is meant, dropping empty strings
KeepNonEmptyStrings(items) ==
    IF items = <<>> THEN <<>>
    ELSE IF Head(items).t = "str" /\ Head(items).s # <<>>
        THEN <<Head(items).s>> \o KeepNonEmptyStrings(Tail(items))
    ELSE KeepNonEmptyStrings(Tail(items))

RECURSIVE KeepStrings(_)
\* [f for f in items if isinstance(f, str)]
KeepStrings(items) ==
    IF items = <<>> THEN <<>>
    ELSE IF Head(items).t = "str"
        THEN <<Head(items).s>> \o KeepStrings(Tail(items))
    ELSE KeepStrings(Tail(items))

(***************************************************************************)
(* Normalisation of the completion text: chat(), "Parse model JSON output  *)
(* robustly".  A parse result with ok = FALSE is Python's parsed = None.   *)
(***************************************************************************)
\* 1) json.loads(raw_content); 2) on failure, the text from the first "{" to
\* the last "}" when there is one, parsed again; None when that fails too
ParseCompletion(raw) ==
    LET direct == JsonLoads(raw)
        start == StrFind(raw, LBRACE)
        end == StrRFind(raw, RBRACE)
    IN  IF direct.ok THEN direct
        ELSE IF start # -1 /\ end # -1 /\ end > start
            THEN JsonLoads(Slice(raw, start, end + 1))
        ELSE ParseFail

\* isinstance(parsed, dict)
IsDict(parsed) == parsed.ok /\ parsed.val.t = "obj"

\* reply_text after the extraction: parsed["reply"] when it is a str, else ""
ExtractReply(parsed) ==
    IF IsDict(parsed) /\ DictGet(parsed.val, KeyReply).t = "str"
    THEN DictGet(parsed.val, KeyReply).s ELSE <<>>

\* followups after the extraction: the str items of parsed["followups"] when
\* it is a list, else []
ExtractFollowups(parsed) ==
    IF IsDict(parsed) /\ DictGet(parsed.val, KeyFollowups).t = "arr"
    THEN KeepStrings(DictGet(parsed.val, KeyFollowups).items) ELSE <<>>

\* variant: no fallback to the raw text
ReplyNoFallback(r, raw) == r

\* 3) if not reply_text: reply_text = raw_content
ReplyOrRaw(r, raw) == IF r = <<>> THEN raw ELSE r

\* the Traditional-Chinese fallback follow-ups (the three literals, as code points)
FALLBACK_ZH ==
    <<
      <<25105, 36996, 21487, 20197, 36914, 19968, 27493, 20102, 35299,
        21738, 20123, 26377, 38364, 32, 73, 78, 45, 83, 77, 65, 82, 84,
        32, 25903, 25588, 30446, 27161, 25110, 27963, 21205, 30340, 36039,
        35338, 65311>>,
      <<25105, 21487, 20197, 22914, 20309, 21892, 29992, 32, 73, 78, 45,
        83, 77, 65, 82, 84, 32, 25552, 20379, 30340, 25945, 24107, 22521,
        35347, 25110, 32, 83, 84, 69, 65, 77, 65295, 65, 73, 32, 25945,
        23416, 35373, 35336, 25903, 25588, 65311>>,
      <<22914, 26524, 25105, 20043, 24460, 26377, 21839, 38988, 25110,
        24819, 21443, 21152, 35336, 21123, 65292, 25105, 21487, 20197,
        29992, 29978, 40636, 26041, 24335, 32879, 32097, 32, 73, 78, 45,
        83, 77, 65, 82, 84, 32, 22296, 38538, 65311>>
    >>

\* the English fallback follow-ups (the three literals, as code points)
FALLBACK_EN ==
    <<
      <<87, 104, 97, 116, 32, 101, 108, 115, 101, 32, 99, 97, 110, 32, 73,
        32, 108, 101, 97, 114, 110, 32, 97, 98, 111, 117, 116, 32, 73, 78,
        45, 83, 77, 65, 82, 84, 8217, 115, 32, 115, 117, 112, 112, 111,
        114, 116, 32, 103, 111, 97, 108, 115, 32, 111, 114, 32, 97, 99,
        116, 105, 118, 105, 116, 105, 101, 115, 63>>,
      <<72, 111, 119, 32, 99, 97, 110, 32, 73, 32, 109, 97, 107, 101, 32,
        117, 115, 101, 32, 111, 102, 32, 73, 78, 45, 83, 77, 65, 82, 84,
        8217, 115, 32, 115, 117, 112, 112, 111, 114, 116, 32, 102, 111,
        114, 32, 116, 101, 97, 99, 104, 101, 114, 32, 116, 114, 97, 105,
        110, 105, 110, 103, 32, 111, 114, 32, 83, 84, 69, 65, 77, 47, 65,
        73, 32, 108, 101, 97, 114, 110, 105, 110, 103, 32, 100, 101, 115,
        105, 103, 110, 63>>,
      <<73, 102, 32, 73, 32, 104, 97, 118, 101, 32, 109, 111, 114, 101,
        32, 113, 117, 101, 115, 116, 105, 111, 110, 115, 32, 111, 114, 32,
        119, 97, 110, 116, 32, 116, 111, 32, 112, 97, 114, 116, 105, 99,
        105, 112, 97, 116, 101, 44, 32, 104, 111, 119, 32, 99, 97, 110,
        32, 73, 32, 99, 111, 110, 116, 97, 99, 116, 32, 116, 104, 101, 32,
        73, 78, 45, 83, 77, 65, 82, 84, 32, 116, 101, 97, 109, 63>>
    >>

\* 4) if not followups: the fallback set in the language of the final reply
FollowupsOrFallback(f, reply) ==
    IF f # <<>> THEN f
    ELSE IF HasCjk(reply) THEN FALLBACK_ZH
    ELSE FALLBACK_EN

\* steps 1 to 4: the reply and the followups chat() returns for a completion
Normalize(raw) ==
    LET parsed == ParseCompletion(raw)
        reply == ReplyOrRaw(ExtractReply(parsed), raw)
    IN  [reply |-> reply,
         followups |-> FollowupsOrFallback(ExtractFollowups(parsed), reply)]

(***************************************************************************)
(* The upstream model's completion texts.  The system prompt asks for      *)
(*   { "reply": "...", "followups": ["...", "...", "..."] }                *)
(* and the model may comply, wrap the object in prose, stop half way or    *)
(* answer in plain text.                                                   *)
(***************************************************************************)
MaxFollowups == 3

RECURSIVE EscapeString(_)
\* the characters of a string literal: ", \ and newline are escaped
EscapeString(str) ==
    IF str = <<>> THEN <<>>
    ELSE (CASE Head(str) = QUOTE -> <<BACKSLASH, QUOTE>>
            [] Head(str) = BACKSLASH -> <<BACKSLASH, BACKSLASH>>
            [] Head(str) = 10 -> <<BACKSLASH, 110>>
            [] OTHER -> <<Head(str)>>) \o EscapeString(Tail(str))

RECURSIVE Dumps(_)
RECURSIVE DumpsItems(_, _)
\* the JSON text of a value, laid out as in the prompt's example: a newline
\* after "{" and before "}", ": " after a key, ", " between items
Dumps(v) ==
    CASE v.t = "null" -> <<110, 117, 108, 108>>
      [] v.t = "true" -> <<116, 114, 117, 101>>
      [] v.t = "false" -> <<102, 97, 108, 115, 101>>
      [] v.t = "num" -> v.s
      [] v.t = "str" -> <<QUOTE>> \o EscapeString(v.s) \o <<QUOTE>>
      [] v.t = "arr" -> <<91>> \o DumpsItems(v.items, TRUE) \o <<93>>
      [] v.t = "obj" ->
            <<LBRACE, 10>> \o DumpsItems(v.items, TRUE) \o <<10, RBRACE>>
      [] v.t = "member" ->
            <<QUOTE>> \o EscapeString(v.s) \o <<QUOTE, 58, 32>>
                \o Dumps(v.items[1])

DumpsItems(items, first) ==
    IF items = <<>> THEN <<>>
    ELSE (IF first THEN <<>> ELSE <<44, 32>>) \o Dumps(Head(items))
            \o DumpsItems(Tail(items), FALSE)

\* all sequences over S of length 0..n
SeqsUpTo(S, n) == UNION {[1..k -> S] : k \in 0..n}

\* what the model may put under "reply": nothing, a number, or a string
\* (empty; plain; with characters that need escaping; at and around the two
\* ends of U+4E00..U+9FFF)
ReplyValues ==
    {JNum(<<49>>)} \cup
    {JStr(x) : x \in {<<>>, <<97>>, <<34, 92, 10>>, <<19968>>,
                      <<97, 40959>>, <<19967, 40960>>}}

\* what the model may put in the "followups" array
FollowupItems == {JStr(<<98>>), JStr(<<>>), JNum(<<49>>)}

\* what the model may put under "followups": nothing, a string, or an array
FollowupValues ==
    {JStr(<<98>>)} \cup {JArr(x) : x \in SeqsUpTo(FollowupItems, MaxFollowups)}

ReplyMembers == {<<>>} \cup {<<JMember(KeyReply, r)>> : r \in ReplyValues}
FollowupMembers ==
    {<<>>} \cup {<<JMember(KeyFollowups, f)>> : f \in FollowupValues}

\* the objects the model may answer with
PayloadObjects == {JObj(r \o f) : r \in ReplyMembers, f \in FollowupMembers}

\* JSON of another type than object
OtherJsonValues ==
    {JNull, JNum(<<49>>), JStr(<<97>>), JArr(<<JStr(<<98>>)>>),
     JArr(<<JObj(<<JMember(KeyReply, JStr(<<97>>))>>)>>)}

\* prose (or whitespace) before and after the JSON text:  "a " / " a",
\* whitespace alone, and prose that holds a brace itself
Wrappers ==
    { <<<<>>, <<>>>>,
      <<<<32>>, <<10>>>>,
      <<<<97, 32>>, <<32, 97>>>>,
      <<<<LBRACE, 32>>, <<>>>>,
      <<<<>>, <<32, RBRACE>>>>,
      <<<<RBRACE, 32>>, <<32, LBRACE>>>> }

\* plain text: empty, ASCII, CJK, and text with lone or unordered braces
PlainTexts ==
    {<<>>, <<97>>, <<20013, 97>>, <<LBRACE>>, <<RBRACE, 97, LBRACE>>,
     <<LBRACE, 97, RBRACE>>, <<97, 10, 98>>}

\* a complete answer, of which a prefix is a partial answer
SamplePayload ==
    JObj(<<JMember(KeyReply, JStr(<<97>>)),
           JMember(KeyFollowups, JArr(<<JStr(<<98>>)>>))>>)

PartialTexts ==
    {SubSeq(Dumps(SamplePayload), 1, k) : k \in {1, 12, 14, 31, 34}}

\* a completion: the text, and for a JSON answer the value and the wrapper it
\* was written from
Completion(kind, text, value, w) ==
    [kind |-> kind, text |-> text, value |-> value, pre |-> w[1], post |-> w[2]]

NoWrapper == <<<<>>, <<>>>>

Completions ==
    {Completion("json", w[1] \o Dumps(v) \o w[2], v, w) :
        v \in PayloadObjects, w \in Wrappers}
    \cup {Completion("json", Dumps(v), v, NoWrapper) : v \in OtherJsonValues}
    \cup {Completion("plain", x, JNull, NoWrapper) : x \in PlainTexts}
    \cup {Completion("partial", x, JNull, NoWrapper) : x \in PartialTexts}
    \cup {Completion("notext", <<>>, JNull, NoWrapper)}

(***************************************************************************)
(* POST /api/chat                                                          *)
(***************************************************************************)
VARIABLES
    pc,            \* "idle": no request yet; "calling": requests.post issued;
                   \* "done": the response is returned
    req,           \* the request body: its "message" and "history"
    user_message,  \* data.get("message", "").strip()
    history,       \* the handler's history: data.get("history") or []
    messages,      \* the message list sent upstream
    calls,         \* number of requests.post calls made for this request
    up,            \* what the upstream API answered
    raw_content,   \* data_resp["choices"][0]["message"]["content"]
    resp           \* the handler's response

chatVars ==
    <<pc, req, user_message, history, messages, calls, up, raw_content, resp>>

STATUS_OK == 200

Turn(role, content) == [role |-> role, content |-> content]

\* the system prompt: instructions and corpus, opaque here
SYSTEM_PROMPT == <<83>>

\* "message" of the request body: the key is absent, holds a string, or holds
\* a value that is no string (null, a number)
MessageInputs ==
    {[kind |-> "absent", text |-> <<>>], [kind |-> "nonstr", text |-> <<>>]}
    \cup {[kind |-> "str", text |-> x] :
            x \in {<<>>, <<32>>, <<9, 12288, 10>>, <<97>>,
                   <<32, 97, 32, 98, 10>>}}

\* "history" of the request body: the key is absent (or holds null, 0, "":
\* "or []" treats them alike); holds a list of turns (in any order of roles:
\* it is never validated); holds a truthy value that is no list (a string)
HistoryInputs ==
    {[kind |-> k, turns |-> <<>>] : k \in {"absent", "truthy"}}
    \cup {[kind |-> "list", turns |-> x] :
            x \in {<<>>,
                   <<Turn("user", <<113>>), Turn("assistant", <<114>>)>>,
                   <<Turn("assistant", <<114>>)>>}}

\* bodies of upstream error responses
ErrorBodies == {<<>>, <<101>>}

\* status codes the upstream API may answer with
UpstreamStatuses == {200, 201, 429, 500}

NoCompletion == Completion("none", <<>>, JNull, NoWrapper)

\* the upstream answers: a status, the body text, and for a success the
\* completion its envelope carries (the envelope itself is not modelled: the
\* body of a success stands for it)
UpstreamResponses ==
    {[status |-> STATUS_OK, text |-> c.text, completion |-> c] :
        c \in Completions}
    \cup {[status |-> 201, text |-> c.text, completion |-> c] :
        c \in {Completion("json", Dumps(SamplePayload), SamplePayload, NoWrapper),
               Completion("plain", <<97>>, JNull, NoWrapper)}}
    \cup {[status |-> st, text |-> b, completion |-> NoCompletion] :
        st \in UpstreamStatuses \ {STATUS_OK, 201}, b \in ErrorBodies}

NoUpstream == [status |-> 0, text |-> <<>>, completion |-> NoCompletion]

\* a response: the HTTP status and the fields of the JSON payload that are
\* present (fields); the fields that are absent hold defaults
Response(status, fields, error, upstatus, body, reply, followups, hist) ==
    [status |-> status, fields |-> fields, error |-> error,
     upstatus |-> upstatus, body |-> body, reply |-> reply,
     followups |-> followups, history |-> hist]

NoResponse == Response(0, {}, "", 0, <<>>, <<>>, <<>>, <<>>)

\* jsonify({"error": "message is required"}), 400
ValidationResponse ==
    Response(400, {"error"}, "message is required", 0, <<>>, <<>>, <<>>, <<>>)

\* jsonify({"error": f"request failed: {e}"}), 500
RequestFailedResponse ==
    Response(500, {"error"}, "request failed", 0, <<>>, <<>>, <<>>, <<>>)

\* variant: every upstream failure is reported as 502
UpstreamErrorAs502(status, body) ==
    Response(502, {"error", "status", "body"}, "upstream_error",
             status, body, <<>>, <<>>, <<>>)

\* jsonify({"error": "upstream_error", "status": ..., "body": ...}), status
UpstreamErrorResponse(status, body) ==
    Response(status, {"error", "status", "body"}, "upstream_error",
             status, body, <<>>, <<>>, <<>>)

\* jsonify({"reply": ..., "followups": ..., "history": ...})
OkResponse(reply, followups, hist) ==
    Response(200, {"reply", "followups", "history"}, "", 0, <<>>,
             reply, followups, hist)

\* an exception no handler catches: the framework answers 500, no payload
CrashResponse == Response(500, {}, "", 0, <<>>, <<>>, <<>>, <<>>)

\* variant: the history of the request body is not read
HistoryIgnored(h) == [list |-> TRUE, turns |-> <<>>]

\* history = data.get("history") or []
HistoryOrEmpty(h) ==
    IF h.kind = "list" /\ h.turns # <<>> THEN [list |-> TRUE, turns |-> h.turns]
    ELSE IF h.kind = "truthy" THEN [list |-> FALSE, turns |-> <<>>]
    ELSE [list |-> TRUE, turns |-> <<>>]

\* messages = [system] + (history if it is a list) + [user]
ComposeMessages(h, um) ==
    <<Turn("system", SYSTEM_PROMPT)>>
        \o (IF h.list THEN h.turns ELSE <<>>)
        \o <<Turn("user", um)>>

\* variant: the history is started afresh on every request
AppendTurnFresh(h, um, reply) ==
    <<Turn("user", um), Turn("assistant", reply)>>

\* if not isinstance(history, list): history = []; then the two appends
AppendTurn(h, um, reply) ==
    (IF h.list THEN h.turns ELSE <<>>)
        \o <<Turn("user", um), Turn("assistant", reply)>>

ChatInit ==
    /\ pc = "idle"
    /\ req = [message |-> [kind |-> "absent", text |-> <<>>],
              history |-> [kind |-> "absent", turns |-> <<>>]]
    /\ user_message = <<>>
    /\ history = [list |-> TRUE, turns |-> <<>>]
    /\ messages = <<>>
    /\ calls = 0
    /\ up = NoUpstream
    /\ raw_content = <<>>
    /\ resp = NoResponse

\* chat(), from the request to the requests.post call (or to the early return)
Request(m, h) ==
    /\ pc = "idle"
    /\ req' = [message |-> m, history |-> h]
    /\ UNCHANGED <<up, raw_content>>
    /\ IF m.kind = "nonstr"
       THEN \* None.strip(): AttributeError
            /\ resp' = CrashResponse
            /\ pc' = "done"
            /\ UNCHANGED <<user_message, history, messages, calls>>
       ELSE LET um == Strip(IF m.kind = "str" THEN m.text ELSE <<>>)
                hl == HistoryOrEmpty(h)
            IN  /\ user_message' = um
                /\ history' = hl
                /\ IF um = <<>>
                   THEN /\ resp' = ValidationResponse
                        /\ pc' = "done"
                        /\ UNCHANGED <<messages, calls>>
                   ELSE /\ messages' = ComposeMessages(hl, um)
                        /\ calls' = calls + 1
                        /\ pc' = "calling"
                        /\ UNCHANGED resp

\* variant: a failed call is repeated once
UpstreamFailsRetry ==
    /\ pc = "calling"
    /\ UNCHANGED <<req, user_message, history, messages, up, raw_content>>
    /\ IF calls < 2
       THEN calls' = calls + 1 /\ pc' = "calling" /\ UNCHANGED resp
       ELSE resp' = RequestFailedResponse /\ pc' = "done" /\ UNCHANGED calls

\* requests.post raises: the transport failed
UpstreamFails ==
    /\ pc = "calling"
    /\ resp' = RequestFailedResponse
    /\ pc' = "done"
    /\ UNCHANGED <<req, user_message, history, messages, calls, up, raw_content>>

\* requests.post returns r; chat() from there to its return
UpstreamResponds(r) ==
    /\ pc = "calling"
    /\ up' = r
    /\ pc' = "done"
    /\ UNCHANGED <<req, user_message, messages, calls>>
    /\ IF r.status # STATUS_OK
       THEN /\ resp' = UpstreamErrorResponse(r.status, r.text)
            /\ UNCHANGED <<history, raw_content>>
       ELSE IF r.completion.kind = "notext"
       THEN \* content is null: json.loads raises TypeError, which is caught,
            \* then raw_content.find raises AttributeError, which is not
            /\ resp' = CrashResponse
            /\ UNCHANGED <<history, raw_content>>
       ELSE LET raw == r.completion.text
                n == Normalize(raw)
                hist == AppendTurn(history, user_message, n.reply)
            IN  /\ raw_content' = raw
                /\ history' = [list |-> TRUE, turns |-> hist]
                /\ resp' = OkResponse(n.reply, n.followups, hist)

(***************************************************************************)
(* The crawler: crawl_insmart() and load_insmart_corpus() (src/app.py).    *)
(* A text is modelled by its length; a URL by scheme, netloc and the rest. *)
(***************************************************************************)
VARIABLES
    crawl_pc,        \* "off": not started; "loop": in the while loop;
                     \* "done": corpus returned; "failed": ValueError raised
    params,          \* start_url, max_pages, per_page_chars, total_chars
    visited,         \* set of URLs
    queue,           \* sequence of URLs
    collected,       \* lengths of the strings of the list collected
    fetched,         \* the URLs passed to fetch_html, in order
    insmart_corpus,  \* length of the global corpus string
    crawler_error    \* TRUE when load_insmart_corpus recorded an error

crawlVars ==
    <<crawl_pc, params, visited, queue, collected, fetched, insmart_corpus,
      crawler_error>>

MaxPagesCap == 3

\* len("\n...[content truncated]")
PAGE_MARKER_LEN == 23
\* len("\n...[overall corpus truncated]")
CORPUS_MARKER_LEN == 30
\* len("\n[Content of ]\n\n"), the text around url and page text
CONTENT_FRAME_LEN == 16
\* len("\n[Failed to fetch : ]\n"), the text around url and exception
FAILURE_FRAME_LEN == 22

Url(scheme, netloc, rest) == [scheme |-> scheme, netloc |-> netloc, rest |-> rest]

\* len(url) of scheme://netloc/rest
UrlLen(u) == Len(u.scheme) + 3 + Len(u.netloc) + Len(u.rest)

START == Url("https", "a", "/")

\* an href: an absolute URL, a path from the root, or a fragment
AbsHref(u) == [kind |-> "abs", url |-> u, text |-> ""]
PathHref(x) == [kind |-> "path", url |-> START, text |-> x]
FragmentHref(x) == [kind |-> "fragment", url |-> START, text |-> x]

\* urljoin(base, href)
UrlJoin(base, href) ==
    CASE href.kind = "abs" -> href.url
      [] href.kind = "path" -> Url(base.scheme, base.netloc, href.text)
      [] href.kind = "fragment" ->
            Url(base.scheme, base.netloc, base.rest \o href.text)

\* the a[href] lists a page may hold: none; five pages of the site; the same
\* page twice; a path, the http twin of a page, another host, a mailto
\* link, the seed itself and a fragment
LinkLists ==
    { <<>>,
      <<AbsHref(Url("https", "a", "/1")), AbsHref(Url("https", "a", "/2")),
        AbsHref(Url("https", "a", "/3")), AbsHref(Url("https", "a", "/4")),
        AbsHref(Url("https", "a", "/5"))>>,
      <<AbsHref(Url("https", "a", "/1")), AbsHref(Url("https", "a", "/1"))>>,
      <<PathHref("/2"), AbsHref(Url("http", "a", "/1")),
        AbsHref(Url("https", "b", "/")), AbsHref(Url("mailto", "", "x")),
        AbsHref(START), FragmentHref("#t")>> }

\* what fetch_html(url) does: raises (the message of length err), or returns
\* a body whose text has length text, HTML (with its links) or not
FetchOutcomes ==
    {[kind |-> "raise", err |-> 40, text |-> 0, links |-> <<>>]}
    \cup {[kind |-> "other", err |-> 0, text |-> 60, links |-> <<>>]}
    \cup {[kind |-> "html", err |-> 0, text |-> t, links |-> l] :
            t \in {0, 60}, l \in LinkLists}

\* the arguments of crawl_insmart
CrawlParams ==
    {[start_url |-> u, max_pages |-> m, per_page_chars |-> c, total_chars |-> t] :
        u \in {START, Url("ftp", "a", "/"), Url("", "", "a/")},
        m \in 1..MaxPagesCap, c \in {10, 80}, t \in {30, 100, 400}}

NoParams ==
    [start_url |-> START, max_pages |-> 0, per_page_chars |-> 0, total_chars |-> 0]

RECURSIVE SumLen(_)
\* len("".join(collected))
SumLen(c) == IF c = <<>> THEN 0 ELSE Head(c) + SumLen(Tail(c))

\* text[:cap] + "\n...[content truncated]" when len(text) > cap
CapPage(n, cap) == IF n > cap THEN cap + PAGE_MARKER_LEN ELSE n

\* corpus[:total_chars] + "\n...[overall corpus truncated]" when
\* len(corpus) > total_chars
CapCorpus(n, cap) == IF n > cap THEN cap + CORPUS_MARKER_LEN ELSE n

RECURSIVE Discover(_, _, _, _)
\* the for loop over the page's links: what is appended to the queue
Discover(links, url, base_domain, seen) ==
    IF links = <<>> THEN <<>>
    ELSE LET full_url == UrlJoin(url, Head(links))
             more == Discover(Tail(links), url, base_domain, seen)
         IN  IF /\ full_url.netloc = base_domain
                /\ full_url.scheme \in {"http", "https"}
                /\ full_url \notin seen
             THEN <<full_url>> \o more
             ELSE more

\* variant: the page limit compared with <= instead of <
LoopConditionOffByOne ==
    /\ queue # <<>>
    /\ Cardinality(visited) <= params.max_pages
    /\ SumLen(collected) < params.total_chars

\* the condition of the while loop
LoopCondition ==
    /\ queue # <<>>
    /\ Cardinality(visited) < params.max_pages
    /\ SumLen(collected) < params.total_chars

CrawlInit ==
    /\ crawl_pc = "off"
    /\ params = NoParams
    /\ visited = {}
    /\ queue = <<>>
    /\ collected = <<>>
    /\ fetched = <<>>
    /\ insmart_corpus = 0
    /\ crawler_error = FALSE

\* crawl_insmart(...), up to the loop; a ValueError is caught by
\* load_insmart_corpus, which records it and leaves the corpus empty
CrawlStart(p) ==
    /\ crawl_pc = "off"
    /\ params' = p
    /\ UNCHANGED <<visited, collected, fetched, insmart_corpus>>
    /\ IF p.start_url.scheme \notin {"http", "https"} \/ p.start_url.netloc = ""
       THEN /\ crawl_pc' = "failed"
            /\ crawler_error' = TRUE
            /\ UNCHANGED queue
       ELSE /\ crawl_pc' = "loop"
            /\ queue' = <<p.start_url>>
            /\ UNCHANGED crawler_error

\* one iteration of the while loop, fetch_html doing o
CrawlIterate(o) ==
    /\ crawl_pc = "loop"
    /\ LoopCondition
    /\ UNCHANGED <<crawl_pc, params, insmart_corpus, crawler_error>>
    /\ LET url == Head(queue)
       IN  IF url \in visited
           THEN /\ queue' = Tail(queue)
                /\ UNCHANGED <<visited, collected, fetched>>
           ELSE /\ visited' = visited \cup {url}
                /\ fetched' = Append(fetched, url)
                /\ IF o.kind = "raise"
                   THEN /\ collected' = Append(collected,
                                FAILURE_FRAME_LEN + UrlLen(url) + o.err)
                        /\ queue' = Tail(queue)
                   ELSE /\ collected' = Append(collected,
                                CONTENT_FRAME_LEN + UrlLen(url)
                                    + CapPage(o.text, params.per_page_chars))
                        /\ queue' = Tail(queue) \o
                                (IF o.kind = "html"
                                 THEN Discover(o.links, url,
                                               params.start_url.netloc,
                                               visited \cup {url})
                                 ELSE <<>>)

\* the loop is left: the corpus is joined, cut and returned, and
\* load_insmart_corpus stores it
CrawlReturn ==
    /\ crawl_pc = "loop"
    /\ ~LoopCondition
    /\ crawl_pc' = "done"
    /\ insmart_corpus' = CapCorpus(SumLen(collected), params.total_chars)
    /\ UNCHANGED <<params, visited, queue, collected, fetched, crawler_error>>

(***************************************************************************)
(* A conversation: a caller that sends request after request, each with    *)
(* the history of the latest 200 response. chat() keeps nothing between    *)
(* requests: the history travels in the request body and in the response.  *)
(***************************************************************************)
VARIABLES
    caller_history,  \* the history the caller holds and sends
    ok_count,        \* number of 200 responses received
    sent,            \* number of requests sent
    returned         \* the histories of the 200 responses, in order

convVars == <<caller_history, ok_count, sent, returned>>

MaxRequests == 3

\* the upstream answers of a conversation: every failure, and the successes
\* with a plain, an empty, a JSON and a missing completion text
ConvCompletions ==
    {Completion("plain", <<97>>, JNull, NoWrapper),
     Completion("plain", <<>>, JNull, NoWrapper),
     Completion("json", Dumps(SamplePayload), SamplePayload, NoWrapper),
     Completion("notext", <<>>, JNull, NoWrapper)}

ConvUpstreamResponses ==
    {r \in UpstreamResponses :
        r.status # STATUS_OK \/ r.completion \in ConvCompletions}

ConvInit ==
    /\ caller_history = <<>>
    /\ ok_count = 0
    /\ sent = 0
    /\ returned = <<>>

\* the caller posts {"message": m, "history": caller_history}
CallerSends(m) ==
    /\ sent < MaxRequests
    /\ Request(m, [kind |-> "list", turns |-> caller_history])
    /\ sent' = sent + 1
    /\ UNCHANGED <<caller_history, ok_count, returned>>

\* the caller takes the response: the history of a 200 response replaces
\* its own, any other response leaves it; the handler is ready for the next
\* request, its locals gone
CallerReceives ==
    /\ pc = "done"
    /\ pc' = "idle"
    /\ req' = [message |-> [kind |-> "absent", text |-> <<>>],
               history |-> [kind |-> "absent", turns |-> <<>>]]
    /\ user_message' = <<>>
    /\ history' = [list |-> TRUE, turns |-> <<>>]
    /\ messages' = <<>>
    /\ calls' = 0
    /\ up' = NoUpstream
    /\ raw_content' = <<>>
    /\ resp' = NoResponse
    /\ UNCHANGED sent
    /\ IF resp.status = STATUS_OK
       THEN /\ caller_history' = resp.history
            /\ ok_count' = ok_count + 1
            /\ returned' = Append(returned, resp.history)
       ELSE UNCHANGED <<caller_history, ok_count, returned>>

vars == <<chatVars, crawlVars, convVars>>

\* the chat endpoint, no crawl running (api/chat.py has none)
Init == ChatInit /\ CrawlInit /\ ConvInit

Next ==
    \/ \E m \in MessageInputs, h \in HistoryInputs :
            Request(m, h) /\ UNCHANGED <<crawlVars, convVars>>
    \/ UpstreamFails /\ UNCHANGED <<crawlVars, convVars>>
    \/ \E r \in UpstreamResponses :
            UpstreamResponds(r) /\ UNCHANGED <<crawlVars, convVars>>

Spec == Init /\ [][Next]_vars

\* the crawl at startup, before any request is served
NextCrawl ==
    \/ \E p \in CrawlParams :
            CrawlStart(p) /\ UNCHANGED <<chatVars, convVars>>
    \/ \E o \in FetchOutcomes :
            CrawlIterate(o) /\ UNCHANGED <<chatVars, convVars>>
    \/ CrawlReturn /\ UNCHANGED <<chatVars, convVars>>

SpecCrawl == Init /\ [][NextCrawl]_vars

\* a conversation of at most MaxRequests requests, no crawl running
NextConv ==
    \/ \E m \in MessageInputs : CallerSends(m) /\ UNCHANGED crawlVars
    \/ UpstreamFails /\ UNCHANGED <<crawlVars, convVars>>
    \/ \E r \in ConvUpstreamResponses :
            UpstreamResponds(r) /\ UNCHANGED <<crawlVars, convVars>>
    \/ CallerReceives /\ UNCHANGED crawlVars

SpecConv == Init /\ [][NextConv]_vars

(***************************************************************************)
(* Properties of chat()                                                    *)
(***************************************************************************)
\* the request is answered 200 with reply, followups and history
Answered200 ==
    /\ pc = "done"
    /\ resp.status = 200
    /\ resp.fields = {"reply", "followups", "history"}

\* the upstream answered 200 and its completion content is a text
Completed200 ==
    /\ pc = "done"
    /\ up.status = STATUS_OK
    /\ up.completion.kind \in {"json", "plain", "partial"}

IsBlankText(x) == \A i \in 1..Len(x) : x[i] \in StripWs

\* the completion is the JSON text of an object {"reply": R, "followups": F},
\* R a string and F an array, inside the wrapper it was written with
IsReplyFollowupsObject(c) ==
    /\ c.kind = "json"
    /\ c.value.t = "obj"
    /\ Len(c.value.items) = 2
    /\ c.value.items[1].s = KeyReply
    /\ c.value.items[1].items[1].t = "str"
    /\ c.value.items[2].s = KeyFollowups
    /\ c.value.items[2].items[1].t = "arr"

SentReply(c) == c.value.items[1].items[1].s
SentFollowups(c) == c.value.items[2].items[1].items

\* the texts of the string items of a JSON array's items, in order
StringItems(items) ==
    LET sel == SelectSeq(items, LAMBDA x : x.t = "str")
    IN  [i \in 1..Len(sel) |-> sel[i].s]

\* the whole text is itself valid JSON: only whitespace around the value
WholeTextIsJson(c) ==
    /\ c.kind = "json"
    /\ \A i \in 1..Len(c.pre) : c.pre[i] \in JsonWs
    /\ \A i \in 1..Len(c.post) : c.post[i] \in JsonWs

\* {"reply": R, "followups": [f1, f2, f3]} with three strings, as valid JSON
IsThreeFollowupsPayload(c) ==
    /\ IsReplyFollowupsObject(c)
    /\ WholeTextIsJson(c)
    /\ Len(SentFollowups(c)) = 3
    /\ \A i \in 1..3 : SentFollowups(c)[i].t = "str"

\* C1 as stated: for every valid JSON completion {"reply": R, "followups":
\* [f1,f2,f3]} with R ANY string, the response's reply is R and its
\* followups are [f1,f2,f3]
C1_AnyReply ==
    (Completed200 /\ IsThreeFollowupsPayload(up.completion)) =>
        /\ resp.reply = SentReply(up.completion)
        /\ resp.followups = StringItems(SentFollowups(up.completion))

\* C1, amended: for every valid JSON completion {"reply": R, "followups":
\* [f1,f2,f3]} with R a NON-EMPTY string and f1..f3 any strings, the request
\* is answered 200 with reply exactly R and followups exactly [f1,f2,f3]
C1_NonEmptyReply ==
    (/\ Completed200
     /\ IsThreeFollowupsPayload(up.completion)
     /\ SentReply(up.completion) # <<>>) =>
        /\ Answered200
        /\ resp.reply = SentReply(up.completion)
        /\ Len(resp.followups) = 3
        /\ \A i \in 1..3 : resp.followups[i] = SentFollowups(up.completion)[i].s

\* a reply that needs unescaping and followups with an empty string came
\* back as sent
C1_Witness ==
    /\ Completed200
    /\ IsThreeFollowupsPayload(up.completion)
    /\ SentReply(up.completion) = <<34, 92, 10>>
    /\ resp.reply = <<34, 92, 10>>
    /\ resp.followups = << <<98>>, <<>>, <<98>> >>

\* C2: a request answered 200 whose "history" was a list H returns H
\* followed by the user turn (the trimmed message) and the assistant turn
\* (the reply of the same response); the first len(H) elements are H's
C2_HistoryAppended ==
    (Answered200 /\ req.history.kind = "list") =>
        LET H == req.history.turns
            n == Len(H)
        IN  /\ Len(resp.history) = n + 2
            /\ SubSeq(resp.history, 1, n) = H
            /\ resp.history[n + 1] = Turn("user", user_message)
            /\ resp.history[n + 2] = Turn("assistant", resp.reply)
            /\ ~IsBlankText(user_message)
            /\ user_message[1] \notin StripWs
            /\ user_message[Len(user_message)] \notin StripWs

\* a two-turn history grew to four turns, the message having been trimmed
C2_Witness ==
    /\ Answered200
    /\ req.history.kind = "list"
    /\ Len(req.history.turns) = 2
    /\ Len(resp.history) = 4
    /\ req.message.text # user_message
    /\ resp.reply # <<>>

\* C3 as stated: whenever the upstream answers with a 2xx status and the
\* completion content is a text, the request is answered 200 with reply,
\* followups and history
C3_Any2xxAnswered ==
    (/\ pc = "done"
     /\ up.status \in 200..299
     /\ up.completion.kind \in {"json", "plain", "partial"}) => Answered200

\* C4: a request whose message is absent, empty or whitespace-only is
\* answered 400 {"error": "message is required"}; no upstream call is made
\* and no history is returned or extended
C4_BlankMessageRejected ==
    (/\ pc # "idle"
     /\ req.message.kind \in {"absent", "str"}
     /\ IsBlankText(req.message.text)) =>
        /\ pc = "done"
        /\ resp.status = 400
        /\ resp.fields = {"error"}
        /\ resp.error = "message is required"
        /\ calls = 0
        /\ up = NoUpstream
        /\ messages = <<>>
        /\ resp.history = <<>>
        /\ history.turns = (IF req.history.kind = "list"
                            THEN req.history.turns ELSE <<>>)

\* a whitespace-only message (tab, ideographic space, newline) with a
\* non-empty history was rejected
C4_Witness ==
    /\ pc = "done"
    /\ req.message.kind = "str"
    /\ req.message.text = <<9, 12288, 10>>
    /\ req.history.turns # <<>>
    /\ resp.status = 400

\* C5: for every non-2xx status S the upstream answers with body B, the
\* response has status S and payload {error: "upstream_error", status: S,
\* body: B}; nothing is normalized and no reply, followups or history is
\* returned
C5_UpstreamErrorPropagated ==
    (pc = "done" /\ up.status # 0 /\ up.status \notin 200..299) =>
        /\ resp.status = up.status
        /\ resp.fields = {"error", "status", "body"}
        /\ resp.error = "upstream_error"
        /\ resp.upstatus = up.status
        /\ resp.body = up.text
        /\ resp.reply = <<>> /\ resp.followups = <<>> /\ resp.history = <<>>
        /\ raw_content = <<>>
        /\ history = HistoryOrEmpty(req.history)

\* an upstream 429 with a non-empty body was propagated
C5_Witness ==
    /\ pc = "done"
    /\ up.status = 429
    /\ up.text # <<>>
    /\ resp.status = 429
    /\ resp.body = up.text
    /\ req.history.turns # <<>>

\* the prose before the object holds no "{" and the prose after it no "}"
ProseKeepsBraces(c) ==
    /\ \A i \in 1..Len(c.pre) : c.pre[i] # LBRACE
    /\ \A i \in 1..Len(c.post) : c.post[i] # RBRACE

\* C6 as stated: for every object {"reply": R, "followups": F} embedded in
\* ARBITRARY prose, the response's reply is R and its followups are the
\* string items of F
C6_AnyProse ==
    (/\ Completed200
     /\ IsReplyFollowupsObject(up.completion)
     /\ ~WholeTextIsJson(up.completion)) =>
        /\ resp.reply = SentReply(up.completion)
        /\ resp.followups = StringItems(SentFollowups(up.completion))

\* C6, amended: for every object {"reply": R, "followups": F} embedded in
\* prose that holds no "{" before the object and no "}" after it, with R
\* non-empty and F holding at least one string item, the response's reply
\* is R and its followups are the string items of F
C6_ProseWithoutOuterBraces ==
    (/\ Completed200
     /\ IsReplyFollowupsObject(up.completion)
     /\ ~WholeTextIsJson(up.completion)
     /\ ProseKeepsBraces(up.completion)
     /\ SentReply(up.completion) # <<>>
     /\ StringItems(SentFollowups(up.completion)) # <<>>) =>
        /\ Answered200
        /\ resp.reply = SentReply(up.completion)
        /\ resp.followups = StringItems(SentFollowups(up.completion))

\* an object in prose that ends "} " before it and starts " {" after it
\* was extracted, a non-string item of F dropped
C6_Witness ==
    /\ Completed200
    /\ IsReplyFollowupsObject(up.completion)
    /\ up.completion.pre = <<RBRACE, 32>>
    /\ up.completion.post = <<32, LBRACE>>
    /\ resp.reply = SentReply(up.completion)
    /\ resp.reply # <<>>
    /\ Len(resp.followups) = 1
    /\ Len(SentFollowups(up.completion)) = 2

HasBracePair(x) ==
    \E i \in 1..Len(x) : \E j \in (i + 1)..Len(x) :
        x[i] = LBRACE /\ x[j] = RBRACE

\* the completion holds a member "reply" whose value is a non-empty string
SentUsableReply(c) ==
    /\ c.value.t = "obj"
    /\ \E i \in 1..Len(c.value.items) :
        /\ c.value.items[i].s = KeyReply
        /\ c.value.items[i].items[1].t = "str"
        /\ c.value.items[i].items[1].s # <<>>

\* no non-empty string reply can be extracted: the text is no JSON, the
\* prose around the object breaks the second parse, the value is no object,
\* or its reply is missing, no string, or empty
NoUsableReply(c) ==
    \/ c.kind \in {"plain", "partial"}
    \/ c.kind = "json" /\ ~ProseKeepsBraces(c)
    \/ c.kind = "json" /\ ~SentUsableReply(c)

\* C7: whenever no non-empty string reply is extracted the reply is the raw
\* completion text verbatim; for a non-JSON text T without "{"..."}" the
\* reply is T and the followups are one of the two 3-item fallback sets; the
\* reply is empty only when the raw text is empty
C7_RawTextFallback ==
    Completed200 =>
        /\ Answered200
        /\ raw_content = up.completion.text
        /\ NoUsableReply(up.completion) => resp.reply = up.completion.text
        /\ (/\ up.completion.kind \in {"plain", "partial"}
            /\ ~HasBracePair(up.completion.text)) =>
                /\ resp.reply = up.completion.text
                /\ resp.followups \in {FALLBACK_ZH, FALLBACK_EN}
                /\ Len(resp.followups) = 3
        /\ resp.reply = <<>> => up.completion.text = <<>>

\* an answer cut off inside the followups array became the reply as it is
C7_Witness ==
    /\ Completed200
    /\ up.completion.kind = "partial"
    /\ Len(up.completion.text) = 31
    /\ resp.reply = up.completion.text
    /\ resp.followups = FALLBACK_EN

\* the string items the extraction yields for a completion: those of the
\* last "followups" member when the text parses to an object and that
\* member is an array
SentStringFollowups(c) ==
    IF c.kind = "json" /\ c.value.t = "obj" /\ ProseKeepsBraces(c)
    THEN LET fm == SelectSeq(c.value.items, LAMBDA m : m.s = KeyFollowups)
         IN  IF fm # <<>> /\ fm[Len(fm)].items[1].t = "arr"
             THEN StringItems(fm[Len(fm)].items[1].items) ELSE <<>>
    ELSE <<>>

C9_ExactlyOneCall ==
    /\ calls <= 1
    /\ (/\ pc # "idle"
        /\ req.message.kind = "str"
        /\ ~IsBlankText(req.message.text)) => calls = 1
    /\ pc = "calling" => calls = 1

\* a transport failure was answered 500 after the one call
C9_Witness ==
    /\ pc = "done"
    /\ resp = RequestFailedResponse
    /\ calls = 1

(***************************************************************************)
(* Properties of crawl_insmart()                                           *)
(***************************************************************************)
\* C10: for every site and every choice of caps, the corpus crawl_insmart
\* returns has length at most total_chars
C10_CorpusWithinCap ==
    crawl_pc = "done" => insmart_corpus <= params.total_chars

\* the seed page linked to five pages of its own domain: they are what the
\* queue received first, so they follow the seed in fetch order
FivePages ==
    <<Url("https", "a", "/1"), Url("https", "a", "/2"), Url("https", "a", "/3"),
      Url("https", "a", "/4"), Url("https", "a", "/5")>>

SeedLinkedFive ==
    LET order == fetched \o queue
    IN  /\ Len(order) >= 6
        /\ SubSeq(order, 1, 6) = <<START>> \o FivePages

\* the text collected before the latest fetch
CollectedBefore ==
    IF collected = <<>> THEN 0
    ELSE SumLen(SubSeq(collected, 1, Len(collected) - 1))

\* C11: no URL is fetched twice, the fetched URLs are the visited ones
\* (failed fetches included) and never more than max_pages; no fetch is
\* made once the collected text has reached total_chars, and the loop is
\* left only with an empty queue, max_pages visited or total_chars
\* collected; with max_pages = 2, a seed linking to five pages of its
\* domain and the character cap not reached, exactly 2 pages are fetched
C11_BoundedCrawl ==
    /\ \A i, j \in 1..Len(fetched) : fetched[i] = fetched[j] => i = j
    /\ {fetched[i] : i \in 1..Len(fetched)} = visited
    /\ Len(collected) = Len(fetched)
    /\ Len(fetched) <= params.max_pages
    /\ fetched # <<>> => CollectedBefore < params.total_chars
    /\ crawl_pc = "done" =>
            \/ queue = <<>>
            \/ Cardinality(visited) = params.max_pages
            \/ SumLen(collected) >= params.total_chars
    /\ ( /\ crawl_pc = "done"
         /\ params.max_pages = 2
         /\ SeedLinkedFive
         /\ SumLen(collected) < params.total_chars )
            => Len(fetched) = 2

C11_Witness ==
    /\ crawl_pc = "done"
    /\ params.max_pages = 2
    /\ SeedLinkedFive
    /\ SumLen(collected) < params.total_chars
    /\ fetched = <<START, Url("https", "a", "/1")>>
    /\ Len(queue) >= 4

\* C12: every URL in the queue, and so every URL fetched, has the scheme
\* and the network location of the seed URL
C12_SameSchemeAndHost ==
    LET followed == queue \o fetched
    IN  \A i \in 1..Len(followed) :
            /\ followed[i].scheme = params.start_url.scheme
            /\ followed[i].netloc = params.start_url.netloc

(***************************************************************************)
(* Properties of a conversation.                                           *)
(***************************************************************************)
IsPrefix(a, b) == Len(a) <= Len(b) /\ SubSeq(b, 1, Len(a)) = a

\* element 2i is a user turn and element 2i+1 an assistant turn (from 0)
Alternates(h) ==
    \A i \in 1..Len(h) :
        h[i].role = (IF i % 2 = 1 THEN "user" ELSE "assistant")

\* C13: a caller that starts with no history and sends back the history of
\* the latest 200 response holds, after any requests, a history of 2k turns
\* for k 200 responses, user and assistant turns alternating, and every
\* history returned earlier is a prefix of every one returned later
C13_RoundTrip ==
    /\ Len(caller_history) = 2 * ok_count
    /\ Alternates(caller_history)
    /\ Len(returned) = ok_count
    /\ \A i \in 1..Len(returned) : Len(returned[i]) = 2 * i
    /\ \A i, j \in 1..Len(returned) :
            i <= j => IsPrefix(returned[i], returned[j])
    /\ caller_history =
            (IF returned = <<>> THEN <<>> ELSE returned[Len(returned)])

\* three requests, two of them answered with 200 and one not
C13_Witness ==
    /\ pc = "idle"
    /\ sent = 3
    /\ ok_count = 2
    /\ Len(caller_history) = 4
    /\ returned[1] # <<>>
    /\ returned[2] = caller_history

====
